---------------------------- MODULE Spec2Model ----------------------------
(***************************************************************************)
(* Model of src/app.py, a Streamlit dashboard over fan telemetry.          *)
(*                                                                         *)
(* The script is executed top to bottom on the first page load and again   *)
(* after every widget interaction.  The state is the loaded table, the     *)
(* state of the two sidebar widgets, and the values the script's variables *)
(* hold when a run ends (normally or with an exception).                   *)
(*                                                                         *)
(* Numbers: sensor values are integers; min-max scaling and the score are  *)
(* computed over exact rationals <<numerator, denominator>> in lowest      *)
(* terms, so the model speaks of the real-number result of the arithmetic, *)
(* not of its IEEE-754 rounding.  Dates are whole days.                    *)
(***************************************************************************)
EXTENDS Integers, Sequences, FiniteSets, TLC

VARIABLES
    data,                  \* the table read from fan_data2.csv
    selected_fan,          \* sidebar selectbox
    date_sel,              \* sidebar date_input value: <<start>> or <<start, end>>
    outcome,               \* "none" before the first run, "ok", or the exception ending the run
    latest_data_all_fans,  \* tab 1: one entry per fan
    critical_fans,         \* tab 1: the entries over a threshold
    status_stats,          \* tab 1: status shown in 'Overall Fan Statistics'
    status_overview,       \* tab 1: status shown in 'Sensor Status Overview'
    filtered_data,         \* tab 2: the window
    latest_data,           \* tab 2: <<last row of the window>>, <<>> if unassigned
    scaler,                \* tab 2: fitted attributes of the MinMaxScaler
    normalized_metrics,    \* tab 2: scaled window, <<>> if unassigned
    condition_score,       \* tab 2: rational score, <<>> if unassigned
    first,                 \* history: what the first run showed
    moved                  \* history: some later run used another selection than the first

vars == <<data, selected_fan, date_sel, outcome, latest_data_all_fans,
          critical_fans, status_stats, status_overview, filtered_data,
          latest_data, scaler, normalized_metrics, condition_score,
          first, moved>>

---------------------------------------------------------------------------
(* Bounds of the model *)

MaxRows == 2        \* rows of the table in the fleet/session specification
NumFans == 2        \* distinct fan ids
MaxDay == 1         \* days are 0..MaxDay
ScoreRows == 2      \* rows of the table in the scoring specification
WindowRows == 3     \* rows of the table in the window specification

Fans == 1..NumFans
Days == 0..MaxDay

\* sensor values of the fleet/session specification
FleetPower == {5}
FleetTemp == {80, 81}
FleetAirflow == {10}
FleetVib == {10}

\* sensor values of the scoring specification
PowerVals == {5, 10}
TempVals == {79, 80, 81}
AirflowVals == {10, 20}
VibVals == {10, 11}

\* sensor values of the window specification
WindowPower == {5, 10}
WindowTemp == {79, 80, 81}
WindowAirflow == {10}
WindowVib == {10, 11}

Metrics == {"power_kw", "motor_temp_c", "airflow_m3s", "vibration_mms"}

---------------------------------------------------------------------------
(* Exact rational arithmetic *)

Abs(n) == IF n < 0 THEN -n ELSE n

RECURSIVE GCD(_, _)
GCD(a, b) == IF b = 0 THEN a ELSE GCD(b, a % b)

Rat(n, d) == LET g == GCD(Abs(n), d) IN <<n \div g, d \div g>>
RInt(n) == <<n, 1>>
RAdd(a, b) == Rat(a[1] * b[2] + b[1] * a[2], a[2] * b[2])
RSub(a, b) == Rat(a[1] * b[2] - b[1] * a[2], a[2] * b[2])
RMul(a, b) == Rat(a[1] * b[1], a[2] * b[2])
RLeq(a, b) == a[1] * b[2] <= b[1] * a[2]
RLt(a, b) == a[1] * b[2] < b[1] * a[2]

---------------------------------------------------------------------------
(* pandas helpers *)

Range(s) == {s[i] : i \in DOMAIN s}
SetMin(S) == CHOOSE x \in S : \A y \in S : x <= y
SetMax(S) == CHOOSE x \in S : \A y \in S : x >= y

\* data['Fan ID'].unique(): fan ids in order of first appearance
RECURSIVE unique(_)
unique(df) ==
    IF df = <<>> THEN <<>>
    ELSE LET front == unique(SubSeq(df, 1, Len(df) - 1))
             f == df[Len(df)].fan_id
         IN IF f \in Range(front) THEN front ELSE Append(front, f)

\* ascending sequence of a finite set of integers
RECURSIVE SortedSeq(_)
SortedSeq(S) ==
    IF S = {} THEN <<>>
    ELSE LET m == SetMin(S) IN <<m>> \o SortedSeq(S \ {m})

\* df.iloc[-1]
iloc_last(df) == df[Len(df)]

---------------------------------------------------------------------------
(* Tab 1: fleet view *)

\* the group keys of data.groupby('Fan ID'): groupby sorts its keys (sort=True)
GroupKeysUnsorted(df) == unique(df)
GroupKeys(df) == SortedSeq({df[i].fan_id : i \in DOMAIN df})

\* one group of the groupby: the fan's rows in table order
Group(df, f) == SelectSeq(df, LAMBDA r : r.fan_id = f)

\* data.groupby('Fan ID').apply(lambda df: df.iloc[-1])
LatestDataAllFans(df) ==
    LET keys == GroupKeys(df)
    IN [i \in 1..Len(keys) |-> [fan_id |-> keys[i], row |-> iloc_last(Group(df, keys[i]))]]

temp_threshold == 80
vibration_threshold == 10

\* the boolean mask selecting critical_fans
IsCriticalInclusive(row) ==
    \/ row.motor_temp_c >= temp_threshold
    \/ row.vibration_mms >= vibration_threshold
IsCritical(row) ==
    \/ row.motor_temp_c > temp_threshold
    \/ row.vibration_mms > vibration_threshold

CriticalFans(latest) == SelectSeq(latest, LAMBDA e : IsCritical(e.row))

\* critical_fans.index
Index(frame) == {frame[i].fan_id : i \in DOMAIN frame}

\* first loop: "Critical" if fan_id in critical_fans.index else "Normal"
StatusStats(latest, critical) ==
    [i \in 1..Len(latest) |->
        IF latest[i].fan_id \in Index(critical) THEN "Critical" ELSE "Normal"]

\* second loop: "Normal" if fan_id not in critical_fans.index else "Critical"
StatusOverviewSwapped(latest, critical) ==
    [i \in 1..Len(latest) |->
        IF latest[i].fan_id \in Index(critical) THEN "Normal" ELSE "Critical"]
StatusOverview(latest, critical) ==
    [i \in 1..Len(latest) |->
        IF latest[i].fan_id \notin Index(critical) THEN "Normal" ELSE "Critical"]

---------------------------------------------------------------------------
(* Tab 2: window selection *)

\* data[data['Fan ID'] == selected_fan]
FanFilter(df, f) == SelectSeq(df, LAMBDA r : r.fan_id = f)

\* the default of the date_input: [filtered_data['date'].min(), filtered_data['date'].max()]
DefaultRange(df, f) ==
    LET dates == {r.date : r \in Range(FanFilter(df, f))}
    IN <<SetMin(dates), SetMax(dates)>>

\* filtered_data[(date >= Timestamp(start_date)) & (date <= Timestamp(end_date))]
DateFilterOrAll(df, start_date, end_date) ==
    LET kept == SelectSeq(df, LAMBDA r : r.date >= start_date /\ r.date <= end_date)
    IN IF kept = <<>> THEN df ELSE kept
DateFilter(df, start_date, end_date) ==
    SelectSeq(df, LAMBDA r : r.date >= start_date /\ r.date <= end_date)

---------------------------------------------------------------------------
(* Tab 2: MinMaxScaler (feature_range (0, 1)) *)

Column(X, m) == {X[i][m] : i \in DOMAIN X}

\* MinMaxScaler(): no fitted attributes yet
Unfitted ==
    [fitted |-> FALSE, data_min |-> [m \in Metrics |-> 0], data_max |-> [m \in Metrics |-> 0]]

\* partial_fit: data_min_ / data_max_ of the batch, merged with what was seen before
partial_fit(sc, X) ==
    [fitted |-> TRUE,
     data_min |-> [m \in Metrics |->
         IF sc.fitted /\ sc.data_min[m] < SetMin(Column(X, m))
         THEN sc.data_min[m] ELSE SetMin(Column(X, m))],
     data_max |-> [m \in Metrics |->
         IF sc.fitted /\ sc.data_max[m] > SetMax(Column(X, m))
         THEN sc.data_max[m] ELSE SetMax(Column(X, m))]]

\* scaler = MinMaxScaler() followed by fit: the scaler is new in every run
FittedScalerKept(X) == partial_fit(scaler, X)
FittedScaler(X) == partial_fit(Unfitted, X)

\* _handle_zeros_in_scale: a zero range scales by 1
handle_zeros_in_scale(range) == IF range = 0 THEN 1 ELSE range

\* scale_ = (1 - 0) / handle_zeros(data_max_ - data_min_)
scale_(sc, m) == Rat(1, handle_zeros_in_scale(sc.data_max[m] - sc.data_min[m]))
\* min_ = 0 - data_min_ * scale_
min_(sc, m) == RSub(RInt(0), RMul(RInt(sc.data_min[m]), scale_(sc, m)))

\* transform: X * scale_ + min_, row by row
transformNoOffset(sc, X) ==
    [i \in 1..Len(X) |-> [m \in Metrics |-> RMul(RInt(X[i][m]), scale_(sc, m))]]
transform(sc, X) ==
    [i \in 1..Len(X) |->
        [m \in Metrics |-> RAdd(RMul(RInt(X[i][m]), scale_(sc, m)), min_(sc, m))]]

---------------------------------------------------------------------------
(* Tab 2: condition score *)

weightsUnbalanced ==
    [power_kw |-> <<3, 10>>, motor_temp_c |-> <<3, 10>>,
     airflow_m3s |-> <<3, 10>>, vibration_mms |-> <<2, 10>>]
weights ==
    [power_kw |-> <<3, 10>>, motor_temp_c |-> <<3, 10>>,
     airflow_m3s |-> <<2, 10>>, vibration_mms |-> <<2, 10>>]

Weighted(n, one) ==
    RMul(RInt(100),
         RAdd(RAdd(RMul(weights.power_kw, n.power_kw),
                   RMul(weights.motor_temp_c, RSub(one, n.motor_temp_c))),
              RAdd(RMul(weights.airflow_m3s, n.airflow_m3s),
                   RMul(weights.vibration_mms, RSub(one, n.vibration_mms)))))

\* (w_p * p[-1] + w_t * (1 - t[-1]) + w_a * a[-1] + w_v * (1 - v[-1])) * 100
ConditionScoreOfFirst(normalized) == Weighted(normalized[1], RInt(1))
ConditionScoreTempDirect(normalized) ==
    LET n == normalized[Len(normalized)]
    IN Weighted([n EXCEPT !.motor_temp_c = RSub(RInt(1), n.motor_temp_c)], RInt(1))
ConditionScore(normalized) == Weighted(normalized[Len(normalized)], RInt(1))

---------------------------------------------------------------------------
(* One execution of the script *)

\* tab 1 (lines 13-71), which no selection influences
Tab1(df) ==
    LET latest == LatestDataAllFans(df)
        critical == CriticalFans(latest)
    IN [latest_data_all_fans |-> latest,
        critical_fans |-> critical,
        status_stats |-> StatusStats(latest, critical),
        status_overview |-> StatusOverview(latest, critical)]

\* tab 2 (lines 72-261): the values of its variables when the run ends.
\* Unpacking a one-date value raises ValueError at line 78; iloc[-1] of an empty
\* window raises IndexError at line 91; nothing after the raise is assigned.
Tab2(df, fan, dsel) ==
    LET of_fan == FanFilter(df, fan)
        none == [outcome |-> "none", filtered_data |-> of_fan, latest_data |-> <<>>,
                 scaler |-> Unfitted, normalized_metrics |-> <<>>, condition_score |-> <<>>]
    IN IF Len(dsel) # 2
       THEN [none EXCEPT !.outcome = "ValueError"]
       ELSE LET window == DateFilter(of_fan, dsel[1], dsel[2])
            IN IF window = <<>>
               THEN [none EXCEPT !.outcome = "IndexError", !.filtered_data = window]
               ELSE LET sc == FittedScaler(window)
                        normalized == transform(sc, window)
                    IN [outcome |-> "ok",
                        filtered_data |-> window,
                        latest_data |-> <<iloc_last(window)>>,
                        scaler |-> sc,
                        normalized_metrics |-> normalized,
                        condition_score |-> ConditionScore(normalized)]

\* the script, run with the widgets at (fan, dsel)
Script(fan, dsel) ==
    \E t1 \in {Tab1(data)}, t2 \in {Tab2(data, fan, dsel)} :
       /\ selected_fan' = fan
       /\ date_sel' = dsel
       /\ latest_data_all_fans' = t1.latest_data_all_fans
       /\ critical_fans' = t1.critical_fans
       /\ status_stats' = t1.status_stats
       /\ status_overview' = t1.status_overview
       /\ outcome' = t2.outcome
       /\ filtered_data' = t2.filtered_data
       /\ latest_data' = t2.latest_data
       /\ scaler' = t2.scaler
       /\ normalized_metrics' = t2.normalized_metrics
       /\ condition_score' = t2.condition_score
       /\ data' = data

\* what a run showed, as remembered in the history variable
Shown ==
    [selected_fan |-> selected_fan', date_sel |-> date_sel', outcome |-> outcome',
     filtered_data |-> filtered_data', normalized_metrics |-> normalized_metrics', condition_score |-> condition_score']

---------------------------------------------------------------------------
(* Operations *)

\* page load: the selectbox shows the first fan id, the date_input its default
FirstRun ==
    /\ outcome = "none"
    /\ Script(unique(data)[1], DefaultRange(data, unique(data)[1]))
    /\ first' = Shown
    /\ moved' = FALSE

Later(fan, dsel) ==
    /\ outcome # "none"
    /\ Script(fan, dsel)
    /\ first' = first
    /\ moved' = (moved \/ fan # first.selected_fan \/ dsel # first.date_sel)

\* the user picks another fan; a date_input whose default changes is a new widget
\* and shows that default, otherwise it keeps its value
SelectFan(f) ==
    /\ f \in Range(unique(data))
    /\ f # selected_fan
    /\ Later(f, IF DefaultRange(data, f) = DefaultRange(data, selected_fan)
                THEN date_sel ELSE DefaultRange(data, f))

\* the user completes a date range
SelectDateRange(start_date, end_date) ==
    Later(selected_fan, <<start_date, end_date>>)

\* the user has picked only the first date of a range
PickRangeStart(start_date) ==
    Later(selected_fan, <<start_date>>)

\* any rerun that leaves the widgets alone
Rerun ==
    Later(selected_fan, date_sel)

---------------------------------------------------------------------------
(* Specifications *)

Row(F, D, P, T, A, V) ==
    [fan_id : F, date : D, power_kw : P, motor_temp_c : T, airflow_m3s : A,
     vibration_mms : V]

Tables(rows, n) == UNION {[1..k -> rows] : k \in 1..n}

InitWith(tables) ==
    /\ data \in tables
    /\ selected_fan = 0
    /\ date_sel = <<>>
    /\ outcome = "none"
    /\ latest_data_all_fans = <<>>
    /\ critical_fans = <<>>
    /\ status_stats = <<>>
    /\ status_overview = <<>>
    /\ filtered_data = <<>>
    /\ latest_data = <<>>
    /\ scaler = Unfitted
    /\ normalized_metrics = <<>>
    /\ condition_score = <<>>
    /\ first = [selected_fan |-> 0, date_sel |-> <<>>, outcome |-> "none",
                filtered_data |-> <<>>, normalized_metrics |-> <<>>, condition_score |-> <<>>]
    /\ moved = FALSE

\* fleet and session: several fans, rows in any order of date
Init ==
    InitWith(Tables(Row(Fans, Days, FleetPower, FleetTemp, FleetAirflow, FleetVib),
                    MaxRows))

Next ==
    \/ FirstRun
    \/ \E f \in Fans : SelectFan(f)
    \/ \E s \in Days, e \in Days : SelectDateRange(s, e)
    \/ \E s \in Days : PickRangeStart(s)
    \/ Rerun

Spec == Init /\ [][Next]_vars

\* scoring: one fan, one day, short tables, every combination of sensor values
InitScore ==
    InitWith(Tables(Row({1}, {0}, PowerVals, TempVals, AirflowVals, VibVals),
                    ScoreRows))

NextScore ==
    \/ FirstRun
    \/ Rerun

SpecScore == InitScore /\ [][NextScore]_vars

\* window: one fan, one day, longer tables, the airflow constant
InitWindow ==
    InitWith(Tables(Row({1}, {0}, WindowPower, WindowTemp, WindowAirflow, WindowVib),
                    WindowRows))

NextWindow ==
    \/ FirstRun
    \/ Rerun

SpecWindow == InitWindow /\ [][NextWindow]_vars

---------------------------------------------------------------------------
(* Properties *)

Ran == outcome # "none"
FanIds == {data[k].fan_id : k \in DOMAIN data}
Summary == [i \in DOMAIN latest_data_all_fans |-> latest_data_all_fans[i].fan_id]
Last == filtered_data[Len(filtered_data)]
ColMin(m) == SetMin({filtered_data[i][m] : i \in DOMAIN filtered_data})
ColMax(m) == SetMax({filtered_data[i][m] : i \in DOMAIN filtered_data})
Zero == <<0, 1>>
One == <<1, 1>>
Fifty == <<50, 1>>
Hundred == <<100, 1>>

\* (value - min) / (max - min) if max > min, else 0
MinMax(value, m) ==
    IF ColMax(m) > ColMin(m)
    THEN Rat(value - ColMin(m), ColMax(m) - ColMin(m))
    ELSE Zero

\* C1: a fan is shown Critical exactly if its classified reading has
\* motor_temp_c > 80 or vibration_mms > 10 (strictly): 80 and 10 are Normal,
\* and exceeding either threshold is Critical whatever the other metric is.
C1_Classification ==
    Ran => \A i \in DOMAIN latest_data_all_fans :
        LET r == latest_data_all_fans[i].row
        IN /\ status_stats[i] \in {"Critical", "Normal"}
           /\ status_stats[i] = "Critical"
                  <=> (r.motor_temp_c > 80 \/ r.vibration_mms > 10)
           /\ (r.motor_temp_c <= 80 /\ r.vibration_mms <= 10)
                  => status_stats[i] = "Normal"
           /\ r.motor_temp_c > 80 => status_stats[i] = "Critical"
           /\ r.vibration_mms > 10 => status_stats[i] = "Critical"

\* a reading exactly on both thresholds has been classified, as Normal
C1_BoundaryClassified ==
    /\ Ran
    /\ \E i \in DOMAIN latest_data_all_fans :
          /\ latest_data_all_fans[i].row.motor_temp_c = 80
          /\ latest_data_all_fans[i].row.vibration_mms = 10
          /\ status_stats[i] = "Normal"

\* C2: whenever a condition score is computed, for a window of any length >= 1
\* and any metric values (constant metrics included), it lies in [0, 100].
C2_ScoreRange ==
    outcome = "ok" =>
        /\ Len(filtered_data) >= 1
        /\ RLeq(Zero, condition_score)
        /\ RLeq(condition_score, Hundred)

\* a two-reading window has been scored and its score is at the upper end of
\* the interval
C2_ScoredAtUpperEnd ==
    /\ outcome = "ok"
    /\ Len(filtered_data) = 2
    /\ condition_score = Hundred

\* C3: for a non-empty window and each metric, the normalized value of each
\* reading is (value - min) / (max - min) if max > min and 0 if max = min; so it
\* is in [0, 1], the minimum maps to 0, the maximum to 1 (when max > min), and
\* the output has one entry per reading, in the window's order.
C3_Normalization ==
    outcome = "ok" =>
        /\ Len(normalized_metrics) = Len(filtered_data)
        /\ \A i \in DOMAIN filtered_data : \A m \in Metrics :
              LET v == filtered_data[i][m]
                  n == normalized_metrics[i][m]
              IN /\ n = MinMax(v, m)
                 /\ RLeq(Zero, n) /\ RLeq(n, One)
                 /\ ColMax(m) = ColMin(m) => n = Zero
                 /\ (ColMax(m) > ColMin(m) /\ v = ColMin(m)) => n = Zero
                 /\ (ColMax(m) > ColMin(m) /\ v = ColMax(m)) => n = One
        /\ Len(filtered_data) = 1 =>
              \A m \in Metrics : normalized_metrics[1][m] = Zero

\* a three-reading window has been normalized in which one metric is constant
\* and another has a reading strictly between its minimum and maximum
C3_NormalizedInside ==
    /\ outcome = "ok"
    /\ Len(filtered_data) = 3
    /\ \E m \in Metrics : ColMax(m) = ColMin(m)
    /\ \E m \in Metrics : \E i \in DOMAIN filtered_data :
          /\ ColMin(m) < filtered_data[i][m]
          /\ filtered_data[i][m] < ColMax(m)
          /\ RLt(Zero, normalized_metrics[i][m])
          /\ RLt(normalized_metrics[i][m], One)

\* 100 * (0.3 p + 0.3 (1 - t) + 0.2 a + 0.2 (1 - v))
ScoreFormula(p, t, a, v) ==
    RMul(Hundred,
         RAdd(RAdd(RMul(<<3, 10>>, p), RMul(<<3, 10>>, RSub(One, t))),
              RAdd(RMul(<<2, 10>>, a), RMul(<<2, 10>>, RSub(One, v)))))

\* the score is the weighted formula over the last normalized reading, which
\* depends on the earlier readings only through the window's min and max
ScoreFromLast ==
    /\ condition_score =
          ScoreFormula(normalized_metrics[Len(normalized_metrics)].power_kw,
                       normalized_metrics[Len(normalized_metrics)].motor_temp_c,
                       normalized_metrics[Len(normalized_metrics)].airflow_m3s,
                       normalized_metrics[Len(normalized_metrics)].vibration_mms)
    /\ condition_score =
          ScoreFormula(MinMax(Last.power_kw, "power_kw"),
                       MinMax(Last.motor_temp_c, "motor_temp_c"),
                       MinMax(Last.airflow_m3s, "airflow_m3s"),
                       MinMax(Last.vibration_mms, "vibration_mms"))

\* C4 (as amended): the score is 100 x (0.3 p + 0.3 (1 - t) + 0.2 a + 0.2 (1 - v))
\* over the last normalized reading only; every single-reading window scores
\* 50, and a two-reading window whose last reading is strictly greater than
\* the first on every metric scores 50.
C4_ScoreFromLastStrict ==
    outcome = "ok" =>
        /\ ScoreFromLast
        /\ Len(filtered_data) = 1 => condition_score = Fifty
        /\ (/\ Len(filtered_data) = 2
            /\ \A m \in Metrics : filtered_data[2][m] > filtered_data[1][m])
              => condition_score = Fifty

\* a two-reading window whose last reading exceeds the first on every metric
\* has been scored
C4_ScenarioA ==
    /\ outcome = "ok"
    /\ Len(filtered_data) = 2
    /\ \A m \in Metrics : filtered_data[2][m] > filtered_data[1][m]
    /\ condition_score = Fifty

\* C4 (as stated): as above, but for every two-reading window whose last
\* reading is the maximum of every metric, ties with the first included.
C4_ScoreFromLastAsStated ==
    outcome = "ok" =>
        /\ ScoreFromLast
        /\ Len(filtered_data) = 1 => condition_score = Fifty
        /\ (/\ Len(filtered_data) = 2
            /\ \A m \in Metrics : filtered_data[2][m] = ColMax(m))
              => condition_score = Fifty

\* C5 (as stated): the reading used as a fan's latest reading has the maximum
\* date among that fan's readings, whatever the order of the rows.
C5_LatestHasMaxDate ==
    Ran => \A i \in DOMAIN latest_data_all_fans :
        \A k \in DOMAIN data :
            data[k].fan_id = latest_data_all_fans[i].fan_id
                => data[k].date <= latest_data_all_fans[i].row.date

\* the row at which a fan id first appears in the table
FirstRow(f) == SetMin({k \in DOMAIN data : data[k].fan_id = f})

EmptySelection ==
    /\ Len(date_sel) = 2
    /\ ~ \E k \in DOMAIN data :
          /\ data[k].fan_id = selected_fan
          /\ date_sel[1] <= data[k].date
          /\ data[k].date <= date_sel[2]

\* C7: when the selected fan and date range leave no reading in the window
\* (a range with start after end included), the run ends with the error raised
\* where the window is first used, and neither normalized metrics nor a
\* condition score exist for it.
C7_EmptyWindowRaises ==
    (Ran /\ EmptySelection) =>
        /\ outcome = "IndexError"
        /\ filtered_data = <<>>
        /\ latest_data = <<>>
        /\ scaler = Unfitted
        /\ normalized_metrics = <<>>
        /\ condition_score = <<>>

\* a range with start after end has been selected and the run has ended
C7_StartAfterEnd ==
    /\ Ran
    /\ EmptySelection
    /\ date_sel[1] > date_sel[2]
    /\ outcome = "IndexError"

\* the score of a window, computed as the script computes it
ScoreOf(window) == ConditionScore(transform(FittedScaler(window), window))

TempsOf(window) == {window[i].motor_temp_c : i \in DOMAIN window}

\* the window with the motor_temp_c of its latest reading replaced
WithLatestTemp(t) ==
    [filtered_data EXCEPT ![Len(filtered_data)].motor_temp_c = t]

\* t is a higher latest motor_temp_c that leaves the window's min and max alone
HigherSameExtremes(t) ==
    /\ t > Last.motor_temp_c
    /\ SetMin(TempsOf(WithLatestTemp(t))) = ColMin("motor_temp_c")
    /\ SetMax(TempsOf(WithLatestTemp(t))) = ColMax("motor_temp_c")

\* C8: of two windows that differ only in the motor_temp_c of the latest
\* reading and have the same motor_temp_c min and max, the one with the higher
\* latest motor_temp_c has the strictly lower score.
C8_TempMonotone ==
    outcome = "ok" =>
        \A t \in WindowTemp :
            HigherSameExtremes(t) => RLt(ScoreOf(WithLatestTemp(t)), condition_score)

\* a window has been scored whose latest motor_temp_c can be raised without
\* moving the window's min or max
C8_HigherExists ==
    /\ outcome = "ok"
    /\ \E t \in WindowTemp : HigherSameExtremes(t)

\* the fans whose summarised reading is over a threshold
OverThreshold ==
    {latest_data_all_fans[i].fan_id : i \in
        {j \in DOMAIN latest_data_all_fans :
            \/ latest_data_all_fans[j].row.motor_temp_c > 80
            \/ latest_data_all_fans[j].row.vibration_mms > 10}}

============================================================================
